---- MODULE Spec2Model ----
(***************************************************************************)
(* Drupal Issue Summarizer: the background service worker's request        *)
(* pipeline (src/background.js), the options page's storage actions        *)
(* (src/unnamed/part_001) and the pure helpers they use.                   *)
(*                                                                         *)
(* Granularity.  JavaScript runs one task at a time and drains the         *)
(* microtask queue before the next task starts.  An action of this model   *)
(* is one task: a message delivery, or the completion of one storage or    *)
(* network operation, together with every promise continuation that        *)
(* completion triggers (the awaiting function bodies up to their next      *)
(* await, the finally block of handleSummarize, the listener's             *)
(* then/catch/finally chain).                                              *)
(*                                                                         *)
(* Environment.  Network responses are chosen by the environment:          *)
(* transport failure (fetch rejects), any HTTP status, and a body that is  *)
(* unparseable, the JSON value null, or a JSON object.  chrome.storage     *)
(* reads and writes of the service worker are taken to succeed; the        *)
(* model preference (chrome.storage.sync "model") only selects a field of  *)
(* the summarization request body and is not part of the state.            *)
(***************************************************************************)
EXTENDS Integers, Sequences, FiniteSets, TLC

\* ------------------------------------------------------------ bounds
\* Number of SUMMARIZE_ISSUE messages delivered in one behaviour.
MaxCalls == 2
\* Number of clear-cache clicks in one behaviour.
MaxClears == 1
\* Number of comments the site holds for an issue, in the pipeline model.
SiteComments == 51

\* ------------------------------------------------- program constants
\* background.js:142  const maxPages = 10
maxPages == 10
\* background.js:146 (limit=50) and background.js:162 (length < 50)
PageLimit == 50

\* ------------------------------------------------------ JS values
\* The value of a missing property / missing storage key.
Undefined == "<undefined>"

\* JavaScript truthiness of a string-or-undefined value.
Truthy(v) == v # Undefined /\ v # ""

Digits == {"0", "1", "2", "3", "4", "5", "6", "7", "8", "9"}

\* A message's nodeId: absent, or a string given as its sequence of characters.
AbsentId == [present |-> FALSE, chars |-> <<>>]
StrId(s) == [present |-> TRUE, chars |-> s]

\* /^\d+$/.test(s) for a string s: one or more characters, all ASCII digits.
RegexDigitsOnly(s) == Len(s) >= 1 /\ \A i \in 1..Len(s) : s[i] \in Digits

\* /\d+/.test(s): the same pattern without its anchors.
IsValidNodeId_Unanchored(nodeId) ==
    nodeId.present /\ \E i \in 1..Len(nodeId.chars) : nodeId.chars[i] \in Digits

\* background.js:61  the negation of (!nodeId || !/^\d+$/.test(nodeId))
IsValidNodeId(nodeId) ==
    ~( (~nodeId.present \/ nodeId.chars = <<>>)
       \/ ~(nodeId.present /\ RegexDigitsOnly(nodeId.chars)) )

\* background.js:66  `${nodeId}_${forceRefresh}`
dedupeKey(nodeId, forceRefresh) ==
    nodeId \o <<"_", IF forceRefresh THEN "true" ELSE "false">>

\* background.js:78  `summary_${nodeId}`
cacheKey(nodeId) == <<"summary_">> \o nodeId

\* The storage key of the credential.
ApiKeyKey == <<"apiKey">>

\* The filter letting every key through.
StartsWithSummary_Any(k) == TRUE

\* part_001:69  k.startsWith("summary_")
StartsWithSummary(k) == Len(k) >= 1 /\ k[1] = "summary_"

\* Key-value maps (chrome.storage.local, the inFlight Map).
EmptyMap == [k \in {} |-> Undefined]
MapGet(m, k) == IF k \in DOMAIN m THEN m[k] ELSE Undefined
MapPut(m, k, v) == [x \in DOMAIN m \cup {k} |-> IF x = k THEN v ELSE m[x]]
MapRemove(m, ks) == [x \in DOMAIN m \ ks |-> m[x]]

\* ------------------------------------------------------ outcomes
Result(summary, fromCache) ==
    [type |-> "result", summary |-> summary, fromCache |-> fromCache, error |-> ""]
Failure(message) ==
    [type |-> "error", summary |-> "", fromCache |-> FALSE, error |-> message]
NoOutcome == [type |-> "pending", summary |-> "", fromCache |-> FALSE, error |-> ""]

\* Error messages of the code.
ErrInvalidId == "Invalid issue ID."
ErrNoKey == "No API key configured. Click the extension icon to set your Claude API key."
ErrNotIssue == "The fetched node does not appear to be a valid Drupal issue."
ErrIssueHttp(status) == "Failed to fetch issue (HTTP " \o ToString(status) \o ")"
ErrIssueParse == "Failed to parse issue data. Drupal.org may be temporarily unavailable."
ErrCommentsHttp(status) == "Failed to fetch comments (HTTP " \o ToString(status) \o ")"
ErrCommentsParse == "Failed to parse comments. Drupal.org may be temporarily unavailable."
\* Raised by the runtime, not by the code: fetch() rejecting, and a property
\* read on null.
ErrTransport == "TypeError: Failed to fetch"
ErrNullDeref == "TypeError: Cannot read properties of null"

\* Response.ok
HttpOk(status) == status >= 200 /\ status <= 299

\* ------------------------------------------------------ HTTP responses
\* A response as the code can see it: net = "transport" when fetch() rejects;
\* otherwise status is the HTTP status and kind tells what resp.json() gives:
\* "unparseable" (json() rejects), "null" (the JSON value null) or "object".
IssueResponse(net, status, kind, title) ==
    [net |-> net, status |-> status, kind |-> kind, title |-> title]
PageResponse(net, status, kind, hasList, list) ==
    [net |-> net, status |-> status, kind |-> kind, hasList |-> hasList, list |-> list]
ClaudeResponse(net, status, kind, errorMessage, text, stop_reason) ==
    [net |-> net, status |-> status, kind |-> kind, errorMessage |-> errorMessage,
     text |-> text, stop_reason |-> stop_reason]

\* ------------------------------------------------------ fetchIssue
Fulfilled(kind, title) ==
    [state |-> "fulfilled", error |-> "", kind |-> kind, title |-> title]
Rejected(message) ==
    [state |-> "rejected", error |-> message, kind |-> "none", title |-> Undefined]
PendingFetch == [state |-> "pending", error |-> "", kind |-> "none", title |-> Undefined]
NotStarted == [state |-> "idle", error |-> "", kind |-> "none", title |-> Undefined]
\* Settled with nobody awaiting it: the value is never read.
Unobserved == [state |-> "unobserved", error |-> "", kind |-> "none", title |-> Undefined]

\* background.js:125-137  the settlement of fetchIssue for a response
fetchIssue(resp) ==
    IF resp.net = "transport" THEN Rejected(ErrTransport)
    ELSE IF ~HttpOk(resp.status) THEN Rejected(ErrIssueHttp(resp.status))
    ELSE IF resp.kind = "unparseable" THEN Rejected(ErrIssueParse)
    ELSE Fulfilled(resp.kind, IF resp.kind = "object" THEN resp.title ELSE Undefined)

\* ------------------------------------------------------ fetchComments
\* The loop's state between two awaits: the page whose request is outstanding,
\* the comments accumulated, and whether the function is still running, has
\* returned allComments, or has thrown.
fcStart == [state |-> "running", page |-> 0, allComments |-> <<>>, error |-> ""]
fcReturn(fc, all) == [fc EXCEPT !.state = "returned", !.allComments = all]
fcThrow(fc, message) == [fc EXCEPT !.state = "threw", !.error = message]
fcIdle == [state |-> "idle", page |-> 0, allComments |-> <<>>, error |-> ""]

\* The loop with the page ceiling removed (while (true)).
fetchCommentsStep_NoCeiling(fc, resp) ==
    IF resp.net = "transport" THEN fcThrow(fc, ErrTransport)
    ELSE IF ~HttpOk(resp.status) THEN
        IF fc.page = 0 THEN fcThrow(fc, ErrCommentsHttp(resp.status))
        ELSE fcReturn(fc, fc.allComments)
    ELSE IF resp.kind = "unparseable" THEN
        IF fc.page = 0 THEN fcThrow(fc, ErrCommentsParse)
        ELSE fcReturn(fc, fc.allComments)
    ELSE IF resp.kind = "null" THEN fcThrow(fc, ErrNullDeref)
    ELSE IF ~resp.hasList \/ Len(resp.list) = 0 THEN fcReturn(fc, fc.allComments)
    ELSE LET all == fc.allComments \o resp.list IN
         IF Len(resp.list) < PageLimit THEN fcReturn(fc, all)
         ELSE [fc EXCEPT !.page = fc.page + 1, !.allComments = all]

\* background.js:144-166  one iteration of the while loop, from the settlement
\* of the page request to the next await (a new request for page + 1), the
\* return (line 166) or the throw.  fetch() rejecting (transport) and a
\* property read on a null body are not caught by any handler in the loop.
fetchCommentsStep(fc, resp) ==
    IF resp.net = "transport" THEN fcThrow(fc, ErrTransport)
    ELSE IF ~HttpOk(resp.status) THEN
        IF fc.page = 0 THEN fcThrow(fc, ErrCommentsHttp(resp.status))
        ELSE fcReturn(fc, fc.allComments)
    ELSE IF resp.kind = "unparseable" THEN
        IF fc.page = 0 THEN fcThrow(fc, ErrCommentsParse)
        ELSE fcReturn(fc, fc.allComments)
    ELSE IF resp.kind = "null" THEN fcThrow(fc, ErrNullDeref)
    ELSE IF ~resp.hasList \/ Len(resp.list) = 0 THEN fcReturn(fc, fc.allComments)
    ELSE LET all == fc.allComments \o resp.list IN
         IF Len(resp.list) < PageLimit THEN fcReturn(fc, all)
         ELSE IF fc.page + 1 < maxPages
              THEN [fc EXCEPT !.page = fc.page + 1, !.allComments = all]
              ELSE fcReturn(fc, all)

\* ------------------------------------------------------ callClaude
ClaudeText(text) == [type |-> "text", value |-> text]
ClaudeError(message) == [type |-> "error", value |-> message]

ErrClaude401 == "Invalid API key. Check your key in the extension settings."
ErrClaude429 == "Rate limited by Claude API. Please wait and try again."
ErrClaude5xx == "Claude API is temporarily unavailable. Please try again in a moment."
ErrClaude400(message) == "Claude API error: " \o message
ErrClaudeHttp(status) == "Claude API error (HTTP " \o ToString(status) \o ")"
ErrClaudeParse == "Failed to parse Claude API response."
ErrClaudeEmpty == "Empty response from Claude API"
TruncationNotice == "\n\n*[Summary was truncated due to length limits]*"

\* background.js:283-337  the settlement of callClaude for a response.
\* Line 315 turns an unparseable 400 body into {}; body.error?.message (317)
\* and data.content (329) read a property of the parsed body, which throws a
\* TypeError when the body is the JSON value null.
callClaude(resp) ==
    IF resp.net = "transport" THEN ClaudeError(ErrTransport)
    ELSE IF ~HttpOk(resp.status) THEN
        IF resp.status = 401 THEN ClaudeError(ErrClaude401)
        ELSE IF resp.status = 429 THEN ClaudeError(ErrClaude429)
        ELSE IF resp.status >= 500 THEN ClaudeError(ErrClaude5xx)
        ELSE IF resp.status = 400 THEN
            IF resp.kind = "null" THEN ClaudeError(ErrNullDeref)
            ELSE IF resp.kind = "object" /\ Truthy(resp.errorMessage)
                 THEN ClaudeError(ErrClaude400(resp.errorMessage))
                 ELSE ClaudeError(ErrClaude400("Bad request"))
        ELSE ClaudeError(ErrClaudeHttp(resp.status))
    ELSE IF resp.kind = "unparseable" THEN ClaudeError(ErrClaudeParse)
    ELSE IF resp.kind = "null" THEN ClaudeError(ErrNullDeref)
    ELSE IF ~Truthy(resp.text) THEN ClaudeError(ErrClaudeEmpty)
    ELSE IF resp.stop_reason = "max_tokens"
         THEN ClaudeText(resp.text \o TruncationNotice)
         ELSE ClaudeText(resp.text)

\* ------------------------------------------------------ buildPrompt
\* A text is a sequence of segments, each a stretch of len characters, from
\* offset from, of a literal of the code (lit, src the literal) or of an input
\* text (src its name).  Concatenation is \o.
Lit(s) == IF s = "" THEN <<>> ELSE <<[lit |-> TRUE, src |-> s, from |-> 0, len |-> Len(s)]>>
Field(name, n) == IF n = 0 THEN <<>> ELSE <<[lit |-> FALSE, src |-> name, from |-> 0, len |-> n]>>

\* The characters of segments lo..hi of a text, summed by halves.
RECURSIVE SegmentsLength(_, _, _)
SegmentsLength(text, lo, hi) ==
    IF lo > hi THEN 0
    ELSE IF lo = hi THEN text[lo].len
    ELSE LET mid == (lo + hi) \div 2
         IN  SegmentsLength(text, lo, mid) + SegmentsLength(text, mid + 1, hi)

\* text.length
Length(text) == SegmentsLength(text, 1, Len(text))

\* text.slice(0, n): the segments that fit whole, then the cut one.
Slice(text, n) ==
    IF n <= 0 THEN <<>>
    ELSE IF Length(text) <= n THEN text
    ELSE LET whole == CHOOSE k \in 0..(Len(text) - 1) :
                          /\ SegmentsLength(text, 1, k) <= n
                          /\ SegmentsLength(text, 1, k + 1) > n
             rest == n - SegmentsLength(text, 1, whole)
         IN  IF rest = 0 THEN SubSeq(text, 1, whole)
             ELSE SubSeq(text, 1, whole) \o <<[text[whole + 1] EXCEPT !.len = rest]>>

\* background.js:190  the marker truncate appends
TruncatedMarker == "... [truncated]"

\* truncate cutting without a marker.
truncate_NoMarker(text, maxLen) ==
    IF Length(text) <= maxLen THEN text ELSE Slice(text, maxLen)

\* truncate cutting to maxLen characters in all, marker included.
truncate_WithinCap(text, maxLen) ==
    IF Length(text) <= maxLen THEN text
    ELSE Slice(text, maxLen - Len(TruncatedMarker)) \o Lit(TruncatedMarker)

\* background.js:188-191  truncate(text, maxLen)
truncate(text, maxLen) ==
    IF Length(text) <= maxLen THEN text
    ELSE Slice(text, maxLen) \o Lit(TruncatedMarker)

\* background.js:204, 208, 218, 248  the caps of buildPrompt
BodyCap == 10000
CommentCap == 1000
CommentsBudget == 60000
PromptCap == 80000
\* background.js:219-221  slice(0, 5), slice(-15), length - 20
KeepFirst == 5
KeepLast == 15
OmittedOffset == 20

\* A comment of the input: name is the length of c.name (0: absent or empty),
\* text the length of stripHtml(c.comment_body?.value || ""), created tells
\* whether c.created is there (a valid timestamp: the date takes 10 characters).
Comment(name, text, created) == [name |-> name, text |-> text, created |-> created]

\* background.js:207-214  the block of comment c at index i (from 0)
Block(c, i) ==
    Lit("Comment #" \o ToString(i) \o " by ")
    \o (IF c.name = 0 THEN Lit("Anonymous") ELSE Field("name#" \o ToString(i), c.name))
    \o Lit(" (")
    \o (IF c.created THEN Field("date#" \o ToString(i), 10) ELSE Lit("unknown date"))
    \o Lit("):\n")
    \o truncate(Field("comment_body#" \o ToString(i), c.text), CommentCap)

\* background.js:207  comments.map(...)
ProcessComments(comments) == [k \in 1..Len(comments) |-> Block(comments[k], k - 1)]

\* background.js:217  the sum of the blocks' lengths
RECURSIVE BlocksLength(_, _, _)
BlocksLength(blocks, lo, hi) ==
    IF lo > hi THEN 0
    ELSE IF lo = hi THEN Length(blocks[lo])
    ELSE LET mid == (lo + hi) \div 2
         IN  BlocksLength(blocks, lo, mid) + BlocksLength(blocks, mid + 1, hi)

TotalLen(blocks) == BlocksLength(blocks, 1, Len(blocks))

\* Array.prototype.slice(0, n) and slice(-n)
SliceFirst(list, n) == SubSeq(list, 1, IF Len(list) < n THEN Len(list) ELSE n)
SliceLast(list, n) == SubSeq(list, IF Len(list) > n THEN Len(list) - n + 1 ELSE 1, Len(list))

\* background.js:224  the omission marker
OmissionMarker(omitted) == Lit("[" \o ToString(omitted) \o " middle comments omitted for brevity]")

\* The overflow policy never applied.
ApplyBudget_Never(blocks) == blocks

\* The overflow policy keeping the last 5 blocks for the first 5.
ApplyBudget_TailTwice(blocks) ==
    IF TotalLen(blocks) > CommentsBudget
    THEN SliceLast(blocks, KeepFirst)
         \o <<OmissionMarker(Len(blocks) - OmittedOffset)>>
         \o SliceLast(blocks, KeepLast)
    ELSE blocks

\* background.js:217-229  the overflow policy
ApplyBudget(blocks) ==
    IF TotalLen(blocks) > CommentsBudget
    THEN SliceFirst(blocks, KeepFirst)
         \o <<OmissionMarker(Len(blocks) - OmittedOffset)>>
         \o SliceLast(blocks, KeepLast)
    ELSE blocks

\* Array.prototype.join(sep)
RECURSIVE JoinRange(_, _, _, _)
JoinRange(list, lo, hi, sep) ==
    IF lo > hi THEN <<>>
    ELSE IF lo = hi THEN list[lo]
    ELSE LET mid == (lo + hi) \div 2
         IN  JoinRange(list, lo, mid, sep) \o Lit(sep) \o JoinRange(list, mid + 1, hi, sep)

Join(list, sep) == JoinRange(list, 1, Len(list), sep)

\* An issue of the input: title is the length of issue.title, body the length
\* of stripHtml(issue.body?.value || ""); status, priority, category,
\* component and version are absent, so each is printed as "Unknown".
Issue(title, body) == [title |-> title, body |-> body]

\* background.js:234-246  the template of the payload
FullText(issue, nComments, commentsText) ==
    Lit("# Drupal.org Issue: ") \o Field("title", issue.title)
    \o Lit("\n\n## Metadata\n- Status: Unknown\n- Priority: Unknown\n- Category: Unknown\n- Component: Unknown\n- Version: Unknown\n- Total comments: "
           \o ToString(nComments) \o "\n\n## Issue Description\n")
    \o truncate(Field("body", issue.body), BodyCap)
    \o Lit("\n\n## Comments\n")
    \o commentsText

\* background.js:199-249  buildPrompt: list is processedComments as joined
\* into the payload, text the payload returned.
buildPrompt(issue, comments) ==
    LET list == ApplyBudget(ProcessComments(comments))
    IN  [list |-> list,
         text |-> truncate(FullText(issue, Len(comments), Join(list, "\n\n---\n\n")), PromptCap)]

\* ------------------------------------------------------ the pipeline
VARIABLES
    local,      \* chrome.storage.local: key -> value
    inFlight,   \* background.js:43  the inFlight Map: dedupe key -> execution
    execs,      \* the _handleSummarize executions started so far, in order
    calls,      \* the SUMMARIZE_ISSUE messages delivered so far, in order
    clearKeys,  \* options page: the keys of a clear-cache removal under way
    clicks,     \* clear-cache clicks so far
    removals,   \* clear-cache removals that took effect so far
    fetchLoop,   \* fetchComments run on its own: its loop state
    fetchReqs,   \* ... the page numbers it requested, in order
    fetchServed, \* ... the responses it received, in order
    claudeResp,  \* callClaude run on its own: the response it receives
    claudeOut,   \* ... and its settlement
    promptIssue,    \* buildPrompt run on its own: the issue it is given
    promptComments, \* ... the comments it is given, as runs of like comments
    promptOut,      \* ... and what it built
    panel,      \* the content script's panel: what it displays
    requestId,  \* background.js:445  the panel's request counter
    requests    \* the requests the panel has made, in order

pipeVars == <<local, inFlight, execs, calls, clearKeys, clicks, removals>>
fetchVars == <<fetchLoop, fetchReqs, fetchServed>>
claudeVars == <<claudeResp, claudeOut>>
promptVars == <<promptIssue, promptComments, promptOut>>
panelVars == <<panel, requestId, requests>>

\* ------------------------------------------------------ environment
\* The ids a message may carry: absent, "", "7", "42", "7x".
NodeIdInputs ==
    {AbsentId, StrId(<<>>), StrId(<<"7">>), StrId(<<"4", "2">>), StrId(<<"7", "x">>)}

\* Page p of the site's comment collection (limit=50, oldest first): the
\* comments numbered 50p+1 .. min(50p+50, SiteComments).
SitePage(p) ==
    LET first == p * PageLimit + 1
        last == IF (p + 1) * PageLimit <= SiteComments
                THEN (p + 1) * PageLimit ELSE SiteComments
    IN  IF last < first THEN <<>> ELSE [i \in 1..(last - first + 1) |-> first + i - 1]

\* The pipeline model draws one response of each outcome class of the three
\* request functions; SpecFetch and SpecClaude draw from the full sets.
IssueResponses ==
    { IssueResponse("transport", 0, "unparseable", Undefined),
      IssueResponse("ok", 404, "unparseable", Undefined),
      IssueResponse("ok", 200, "null", Undefined),
      IssueResponse("ok", 200, "object", Undefined),
      IssueResponse("ok", 200, "object", ""),
      IssueResponse("ok", 200, "object", "Fix thing") }

PageResponsesAt(p) ==
    { PageResponse("transport", 0, "unparseable", FALSE, <<>>),
      PageResponse("ok", 503, "unparseable", FALSE, <<>>),
      PageResponse("ok", 200, "object", TRUE, SitePage(p)) }

ClaudeResponsesPipe ==
    { ClaudeResponse("ok", 200, "object", Undefined, "Summary A", "end_turn"),
      ClaudeResponse("ok", 200, "object", Undefined, "Summary B", "max_tokens"),
      ClaudeResponse("ok", 429, "object", Undefined, Undefined, Undefined) }

\* The API key field of the options page: empty, malformed, well-formed.
ApiKeyInputs == {"key", "sk-ant-1"}

\* ------------------------------------------------------ records
\* One execution of _handleSummarize.  pc is the await it is suspended at:
\*   cacheGet   line 82, the read not yet served by the store
\*   cacheGot   line 82, the read served (value in cached), not yet delivered
\*   keyGet     line 89
\*   fetch      line 103
\*   claude     line 117
\*   cacheSet   line 120, the write not yet applied by the store
\*   cacheAck   line 120, the write applied, not yet acknowledged
\*   done       settled with outcome
\* cached and apiKey are the values the storage reads delivered, summary the
\* text callClaude returned; the counters tell the storage and network
\* operations the execution has issued; startEpoch is the number of cache
\* removals that had taken effect when it started.
NewExec(nodeId, forceRefresh, pc) ==
    [nodeId |-> nodeId, forceRefresh |-> forceRefresh, pc |-> pc,
     startEpoch |-> removals, cached |-> Undefined, apiKey |-> Undefined,
     issue |-> NotStarted, comments |-> fcIdle,
     summary |-> Undefined, outcome |-> NoOutcome,
     cacheGets |-> IF pc = "cacheGet" THEN 1 ELSE 0,
     keyGets |-> IF pc = "keyGet" THEN 1 ELSE 0,
     cacheSets |-> 0, issueReqs |-> 0, pageReqs |-> <<>>, claudeReqs |-> 0]

\* One SUMMARIZE_ISSUE message: awaits is the execution whose promise the
\* handleSummarize call returns (0: none, the id was rejected); owner tells
\* whether this call created the execution (and runs the finally block);
\* settleLen is the number of messages delivered when the response was sent
\* and epoch the number of cache removals then.
NewCall(nodeId, forceRefresh, awaits, owner) ==
    [nodeId |-> nodeId, forceRefresh |-> forceRefresh, awaits |-> awaits,
     owner |-> owner, settled |-> FALSE, response |-> NoOutcome,
     keepAlive |-> TRUE, settleLen |-> 0, epoch |-> 0]

\* The timer cleared after a result only: clearInterval chained with then
\* in place of finally.
Respond_TimerLeftOnError(call, out, len, ep) ==
    [call EXCEPT !.settled = TRUE, !.response = out,
                 !.keepAlive = (out.type = "error"),
                 !.settleLen = len, !.epoch = ep]

\* background.js:52-54  then(sendResponse) / catch(sendResponse({error})) /
\* finally(clearInterval(keepAlive)): the response is sent and the timer
\* of the message is stopped.
Respond(call, out, len, ep) ==
    [call EXCEPT !.settled = TRUE, !.response = out, !.keepAlive = FALSE,
                 !.settleLen = len, !.epoch = ep]

\* The state of a freshly installed extension whose service worker has just
\* started: nothing stored, nothing registered.
InitPipe ==
    /\ local = EmptyMap
    /\ inFlight = EmptyMap
    /\ execs = <<>>
    /\ calls = <<>>
    /\ clearKeys = {}
    /\ clicks = 0
    /\ removals = 0

FetchIdle == fetchLoop = fcIdle /\ fetchReqs = <<>> /\ fetchServed = <<>>
ClaudePending == [type |-> "pending", value |-> ""]
ClaudeIdle == claudeResp = ClaudeResponse("none", 0, "none", Undefined, Undefined, Undefined)
              /\ claudeOut = ClaudePending

\* buildPrompt not called: no input, nothing built.
NoPrompt == [list |-> <<>>, text |-> <<>>, built |-> FALSE]
PromptIdle == promptIssue = Issue(0, 0) /\ promptComments = <<>> /\ promptOut = NoPrompt

\* background.js:359-390, 445  the panel as injected: the idle view, the
\* Analyze button shown, Re-analyze hidden, no request made.
PanelInjected ==
    [idle |-> TRUE, loading |-> FALSE, content |-> FALSE, error |-> FALSE,
     footer |-> FALSE, analyzeShown |-> TRUE, reanalyzeShown |-> FALSE,
     analyzeDisabled |-> FALSE, reanalyzeDisabled |-> FALSE,
     badge |-> "", contentHtml |-> "", errorText |-> ""]

InitPanel == panel = PanelInjected /\ requestId = 0 /\ requests = <<>>

Init == InitPipe /\ FetchIdle /\ ClaudeIdle /\ PromptIdle /\ InitPanel

\* ------------------------------------------------------ handleSummarize
\* inFlight.has(dedupeKey) taken to be false always: no deduplication.
InFlightHas_Never(key) == FALSE

\* background.js:67  inFlight.has(dedupeKey)
InFlightHas(key) == key \in DOMAIN inFlight

\* The registry entry removed only when the execution succeeded (the delete
\* placed after the await instead of in a finally block).
RegistryOnSettle_SuccessOnly(reg, key, out) ==
    IF out.type = "result" THEN MapRemove(reg, {key}) ELSE reg

\* background.js:72-74  finally { inFlight.delete(dedupeKey) }
RegistryOnSettle(reg, key, out) == MapRemove(reg, {key})

\* background.js:81  if (!forceRefresh)
ReadsCache(forceRefresh) == ~forceRefresh

\* background.js:77-92  _handleSummarize from its call to its first await.
StartExec(nodeId, forceRefresh) ==
    NewExec(nodeId, forceRefresh, IF ReadsCache(forceRefresh) THEN "cacheGet" ELSE "keyGet")

\* background.js:46-75  the listener and handleSummarize up to its await:
\* the keep-alive timer is started, an invalid id is answered at once, a call
\* for a pending key gets that execution's promise, any other call starts an
\* execution and registers it.
OnMessage(nodeId, forceRefresh) ==
    /\ IF ~IsValidNodeId(nodeId)
       THEN /\ calls' = Append(calls,
                   Respond(NewCall(nodeId, forceRefresh, 0, FALSE),
                           Failure(ErrInvalidId), Len(calls) + 1, removals))
            /\ UNCHANGED <<inFlight, execs>>
       ELSE LET key == dedupeKey(nodeId.chars, forceRefresh) IN
            IF InFlightHas(key)
            THEN /\ calls' = Append(calls, NewCall(nodeId, forceRefresh, inFlight[key], FALSE))
                 /\ UNCHANGED <<inFlight, execs>>
            ELSE /\ execs' = Append(execs, StartExec(nodeId.chars, forceRefresh))
                 /\ inFlight' = MapPut(inFlight, key, Len(execs) + 1)
                 /\ calls' = Append(calls, NewCall(nodeId, forceRefresh, Len(execs) + 1, TRUE))
    /\ UNCHANGED <<local, clearKeys, clicks, removals>>

\* The response sent to the call that started the execution only: a call
\* that joined it is left waiting.
Settle_OwnerOnly(e, ex, out) ==
    /\ execs' = [execs EXCEPT ![e] = [ex EXCEPT !.pc = "done", !.outcome = out]]
    /\ inFlight' = RegistryOnSettle(inFlight, dedupeKey(ex.nodeId, ex.forceRefresh), out)
    /\ calls' = [c \in DOMAIN calls |->
                   IF calls[c].awaits = e /\ calls[c].owner /\ ~calls[c].settled
                   THEN Respond(calls[c], out, Len(calls), removals)
                   ELSE calls[c]]

\* The execution e settles with out, its record becoming ex: in the same task
\* the owner's finally block runs and every call awaiting e sends its
\* response and clears its keep-alive timer (background.js:52-54, 70-74).
Settle(e, ex, out) ==
    /\ execs' = [execs EXCEPT ![e] = [ex EXCEPT !.pc = "done", !.outcome = out]]
    /\ inFlight' = RegistryOnSettle(inFlight, dedupeKey(ex.nodeId, ex.forceRefresh), out)
    /\ calls' = [c \in DOMAIN calls |->
                   IF calls[c].awaits = e /\ ~calls[c].settled
                   THEN Respond(calls[c], out, Len(calls), removals)
                   ELSE calls[c]]

\* The execution e moves on to ex without settling.
Proceed(e, ex) ==
    /\ execs' = [execs EXCEPT ![e] = ex]
    /\ UNCHANGED <<inFlight, calls>>

\* ------------------------------------------------------ _handleSummarize
\* background.js:82  the store serves the read of summary_{id}.
CacheGetServed(e) ==
    /\ execs[e].pc = "cacheGet"
    /\ Proceed(e, [execs[e] EXCEPT !.pc = "cacheGot",
                                   !.cached = MapGet(local, cacheKey(execs[e].nodeId))])
    /\ UNCHANGED <<local, clearKeys, clicks, removals>>

\* A cache hit that is not returned: the pipeline runs all the same.
AfterCacheGet_IgnoreHit(ex) ==
    [ex |-> [ex EXCEPT !.pc = "keyGet", !.keyGets = ex.keyGets + 1], out |-> NoOutcome]

\* background.js:83-92  from the delivery of the cache read to the return
\* (a hit) or to the await of the two settings reads (a miss).
AfterCacheGet(ex) ==
    IF Truthy(ex.cached)
    THEN [ex |-> ex, out |-> Result(ex.cached, TRUE)]
    ELSE [ex |-> [ex EXCEPT !.pc = "keyGet", !.keyGets = ex.keyGets + 1], out |-> NoOutcome]

\* A continuation's result: settle with out, or stay pending as ex.
Continue(e, step) ==
    IF step.out.type = "pending" THEN Proceed(e, step.ex) ELSE Settle(e, step.ex, step.out)

CacheGetDone(e) ==
    /\ execs[e].pc = "cacheGot"
    /\ Continue(e, AfterCacheGet(execs[e]))
    /\ UNCHANGED <<local, clearKeys, clicks, removals>>

\* The credential check left out.
HasCredential_Always(apiKey) == TRUE

\* background.js:96  the negation of (!apiKey)
HasCredential(apiKey) == Truthy(apiKey)

\* background.js:93-106  from the delivery of the settings reads to the throw
\* (no credential) or to the await of Promise.all: fetchIssue and
\* fetchComments have each issued their first request.
AfterKeyGet(ex, apiKey) ==
    IF ~HasCredential(apiKey)
    THEN [ex |-> [ex EXCEPT !.apiKey = apiKey], out |-> Failure(ErrNoKey)]
    ELSE [ex |-> [ex EXCEPT !.pc = "fetch", !.apiKey = apiKey,
                            !.issue = PendingFetch, !.issueReqs = 1,
                            !.comments = fcStart, !.pageReqs = <<0>>],
          out |-> NoOutcome]

KeyGetDone(e) ==
    /\ execs[e].pc = "keyGet"
    /\ Continue(e, AfterKeyGet(execs[e], MapGet(local, ApiKeyKey)))
    /\ UNCHANGED <<local, clearKeys, clicks, removals>>

\* background.js:103-117  Promise.all over the two fetches and what follows
\* it: rejected by the first fetch that fails; once both are fulfilled the
\* title is checked (reading issue.title throws when the body was null), the
\* prompt is built and the summarization request is issued.
AfterFetch(ex) ==
    IF ex.issue.state = "rejected" THEN [ex |-> ex, out |-> Failure(ex.issue.error)]
    ELSE IF ex.comments.state = "threw" THEN [ex |-> ex, out |-> Failure(ex.comments.error)]
    ELSE IF ex.issue.state = "fulfilled" /\ ex.comments.state = "returned" THEN
        IF ex.issue.kind = "null" THEN [ex |-> ex, out |-> Failure(ErrNullDeref)]
        ELSE IF ~Truthy(ex.issue.title) THEN [ex |-> ex, out |-> Failure(ErrNotIssue)]
        ELSE [ex |-> [ex EXCEPT !.pc = "claude", !.claudeReqs = ex.claudeReqs + 1],
              out |-> NoOutcome]
    ELSE [ex |-> ex, out |-> NoOutcome]

\* The response to the primary request arrives.  When the execution has
\* settled already (the comment fetch failed first) nobody awaits it.
IssueResponds(e, r) ==
    /\ execs[e].issue.state = "pending"
    /\ IF execs[e].pc = "fetch"
       THEN Continue(e, AfterFetch([execs[e] EXCEPT !.issue = fetchIssue(r)]))
       ELSE Proceed(e, [execs[e] EXCEPT !.issue = Unobserved])
    /\ UNCHANGED <<local, clearKeys, clicks, removals>>

\* The response to the outstanding comment page request arrives; the loop
\* runs to its next request, its return or its throw.  The loop does not
\* look at the execution: it goes on when the execution has settled already
\* (the primary fetch failed first).
PageResponds(e, r) ==
    /\ execs[e].comments.state = "running"
    /\ LET fc == fetchCommentsStep(execs[e].comments, r)
           ex == [execs[e] EXCEPT !.comments = fc,
                     !.pageReqs = IF fc.state = "running"
                                  THEN Append(execs[e].pageReqs, fc.page)
                                  ELSE execs[e].pageReqs]
       IN  IF ex.pc = "fetch" THEN Continue(e, AfterFetch(ex)) ELSE Proceed(e, ex)
    /\ UNCHANGED <<local, clearKeys, clicks, removals>>

\* The summary cached whatever callClaude's outcome: an error message is
\* stored like a summary text.
AfterClaude_CacheAnyway(ex, res) ==
    [ex |-> [ex EXCEPT !.pc = "cacheSet", !.summary = res.value,
                       !.cacheSets = ex.cacheSets + 1],
     out |-> NoOutcome]

\* A rate-limited summarization request issued once more before giving up.
AfterClaude_RetryOn429(ex, res) ==
    IF res.type = "error" /\ res.value = ErrClaude429 /\ ex.claudeReqs < 2
    THEN [ex |-> [ex EXCEPT !.claudeReqs = ex.claudeReqs + 1], out |-> NoOutcome]
    ELSE IF res.type = "error"
    THEN [ex |-> ex, out |-> Failure(res.value)]
    ELSE [ex |-> [ex EXCEPT !.pc = "cacheSet", !.summary = res.value,
                            !.cacheSets = ex.cacheSets + 1],
          out |-> NoOutcome]

\* background.js:117-120  from the settlement of callClaude to the throw or to
\* the await of the cache write.
AfterClaude(ex, res) ==
    IF res.type = "error"
    THEN [ex |-> ex, out |-> Failure(res.value)]
    ELSE [ex |-> [ex EXCEPT !.pc = "cacheSet", !.summary = res.value,
                            !.cacheSets = ex.cacheSets + 1],
          out |-> NoOutcome]

ClaudeResponds(e, r) ==
    /\ execs[e].pc = "claude"
    /\ Continue(e, AfterClaude(execs[e], callClaude(r)))
    /\ UNCHANGED <<local, clearKeys, clicks, removals>>

\* The cache write dropped.
CacheWrite_Dropped(store, ex) == store

\* A write that creates the entry but leaves an existing one as it is.
CacheWrite_KeepExisting(store, ex) ==
    IF cacheKey(ex.nodeId) \in DOMAIN store THEN store
    ELSE MapPut(store, cacheKey(ex.nodeId), ex.summary)

\* background.js:120  chrome.storage.local.set({ [cacheKey]: summary })
CacheWrite(store, ex) == MapPut(store, cacheKey(ex.nodeId), ex.summary)

\* background.js:120  the store applies the write.
CacheSetApplied(e) ==
    /\ execs[e].pc = "cacheSet"
    /\ local' = CacheWrite(local, execs[e])
    /\ Proceed(e, [execs[e] EXCEPT !.pc = "cacheAck"])
    /\ UNCHANGED <<clearKeys, clicks, removals>>

\* background.js:120-122  the write is acknowledged and the execution returns.
CacheSetDone(e) ==
    /\ execs[e].pc = "cacheAck"
    /\ Settle(e, execs[e], Result(execs[e].summary, FALSE))
    /\ UNCHANGED <<local, clearKeys, clicks, removals>>

\* ------------------------------------------------------ options page
\* part_001:40  apiKey.startsWith("sk-ant-"), over the inputs of ApiKeyInputs
StartsWithSkAnt(input) == input \in {"sk-ant-1"}

\* part_001:31-59  Save: the trimmed key is stored when it is non-empty and
\* starts with "sk-ant-", unless the store reports an error.
SaveSettings(input, stored) ==
    /\ local' = IF input # "" /\ StartsWithSkAnt(input) /\ stored
                THEN MapPut(local, ApiKeyKey, input) ELSE local
    /\ UNCHANGED <<inFlight, execs, calls, clearKeys, clicks, removals>>

\* part_001:62-73  Clear cache: get(null) lists the store; the keys that
\* start with "summary_" are handed to remove, unless there are none or the
\* read failed.
ClearCacheClick(readOk) ==
    /\ clearKeys = {}
    /\ clicks' = clicks + 1
    /\ clearKeys' = IF readOk THEN {k \in DOMAIN local : StartsWithSummary(k)} ELSE {}
    /\ UNCHANGED <<local, inFlight, execs, calls, removals>>

\* part_001:74-80  the store carries out (or fails) the removal.
ClearCacheRemove(removeOk) ==
    /\ clearKeys # {}
    /\ clearKeys' = {}
    /\ local' = IF removeOk THEN MapRemove(local, clearKeys) ELSE local
    /\ removals' = IF removeOk THEN removals + 1 ELSE removals
    /\ UNCHANGED <<inFlight, execs, calls, clicks>>

\* ------------------------------------------------------ specification
Execs == 1..Len(execs)

\* The standalone runs of fetchComments and callClaude take no step here.
Idle == UNCHANGED <<fetchVars, claudeVars, promptVars, panelVars>>

Next ==
    \/ /\ Len(calls) < MaxCalls
       /\ \E id \in NodeIdInputs, f \in BOOLEAN : OnMessage(id, f)
       /\ Idle
    \/ \E e \in Execs : CacheGetServed(e) /\ Idle
    \/ \E e \in Execs : CacheGetDone(e) /\ Idle
    \/ \E e \in Execs : KeyGetDone(e) /\ Idle
    \/ \E e \in Execs : \E r \in IssueResponses : IssueResponds(e, r) /\ Idle
    \/ \E e \in Execs : \E r \in PageResponsesAt(execs[e].comments.page) :
           PageResponds(e, r) /\ Idle
    \/ \E e \in Execs : \E r \in ClaudeResponsesPipe : ClaudeResponds(e, r) /\ Idle
    \/ \E e \in Execs : CacheSetApplied(e) /\ Idle
    \/ \E e \in Execs : CacheSetDone(e) /\ Idle
    \/ \E input \in ApiKeyInputs, stored \in BOOLEAN : SaveSettings(input, stored) /\ Idle
    \/ /\ clicks < MaxClears
       /\ \E readOk \in BOOLEAN : ClearCacheClick(readOk)
       /\ Idle
    \/ \E removeOk \in BOOLEAN : ClearCacheRemove(removeOk) /\ Idle

vars == <<local, inFlight, execs, calls, clearKeys, clicks, removals,
          fetchLoop, fetchReqs, fetchServed, claudeResp, claudeOut,
          promptIssue, promptComments, promptOut, panel, requestId, requests>>

\* The extension: messages, the pipeline's tasks and the options page.
Spec == Init /\ [][Next]_vars

\* A storage operation or a network request of the extension settles.
Settles ==
    \/ \E e \in Execs : CacheGetServed(e) /\ Idle
    \/ \E e \in Execs : CacheGetDone(e) /\ Idle
    \/ \E e \in Execs : KeyGetDone(e) /\ Idle
    \/ \E e \in Execs : \E r \in IssueResponses : IssueResponds(e, r) /\ Idle
    \/ \E e \in Execs : \E r \in PageResponsesAt(execs[e].comments.page) :
           PageResponds(e, r) /\ Idle
    \/ \E e \in Execs : \E r \in ClaudeResponsesPipe : ClaudeResponds(e, r) /\ Idle
    \/ \E e \in Execs : CacheSetApplied(e) /\ Idle
    \/ \E e \in Execs : CacheSetDone(e) /\ Idle
    \/ \E removeOk \in BOOLEAN : ClearCacheRemove(removeOk) /\ Idle

\* The extension when every storage operation and every network request
\* that is outstanding settles in the end.
SpecLive == Init /\ [][Next]_vars /\ WF_vars(Settles)

\* ------------------------------------------------------ fetchComments alone
\* The sizes of a served page.  The request asks for limit=50 and the site
\* is taken to honour it: a page never holds more than PageLimit comments.
PageSizes == {0, 1, PageLimit - 1, PageLimit}

\* A page of n comments; v tells two different contents apart.
ServedList(p, n, v) == [i \in 1..n |-> v * 1000 + p * PageLimit + i]

PageResponsesAll(p) ==
    { PageResponse("transport", 0, "unparseable", FALSE, <<>>) }
    \cup { PageResponse("ok", st, "unparseable", FALSE, <<>>) : st \in {404, 503} }
    \cup { PageResponse("ok", 200, k, FALSE, <<>>) : k \in {"unparseable", "null", "object"} }
    \cup { PageResponse("ok", 200, "object", TRUE, ServedList(p, n, v)) :
             n \in PageSizes, v \in {0, 1} }

\* background.js:139-146  fetchComments is called: page 0 is requested.
InitFetch ==
    /\ InitPipe /\ ClaudeIdle /\ PromptIdle /\ InitPanel
    /\ fetchLoop = fcStart
    /\ fetchReqs = <<0>>
    /\ fetchServed = <<>>

\* background.js:144-166  the outstanding page request settles with r and the
\* loop runs to its next request, its return or its throw.
FetchResponds(r) ==
    /\ fetchLoop.state = "running"
    /\ fetchLoop' = fetchCommentsStep(fetchLoop, r)
    /\ fetchServed' = Append(fetchServed, r)
    /\ fetchReqs' = IF fetchLoop'.state = "running"
                    THEN Append(fetchReqs, fetchLoop'.page) ELSE fetchReqs
    /\ UNCHANGED <<pipeVars, claudeVars, promptVars, panelVars>>

NextFetch == \E r \in PageResponsesAll(fetchLoop.page) : FetchResponds(r)

\* One call of fetchComments against every sequence of page responses.
SpecFetch == InitFetch /\ [][NextFetch]_vars

\* ------------------------------------------------------ callClaude alone
ClaudeStatuses == {200, 201, 299, 300, 400, 401, 403, 404, 429, 499, 500, 503, 529}

ClaudeResponsesAll ==
    { ClaudeResponse("transport", 0, "unparseable", Undefined, Undefined, Undefined) }
    \cup { ClaudeResponse("ok", st, k, Undefined, Undefined, Undefined) :
             st \in ClaudeStatuses, k \in {"unparseable", "null"} }
    \cup { ClaudeResponse("ok", st, "object", m, t, sr) :
             st \in ClaudeStatuses, m \in {Undefined, "", "X"},
             t \in {Undefined, "", "T"}, sr \in {Undefined, "end_turn", "max_tokens"} }

\* background.js:283  the request is sent; the response is the environment's.
InitClaude ==
    /\ InitPipe /\ FetchIdle /\ PromptIdle /\ InitPanel
    /\ claudeResp \in ClaudeResponsesAll
    /\ claudeOut = ClaudePending

\* background.js:304-337  callClaude settles.
ClaudeSettles ==
    /\ claudeOut = ClaudePending
    /\ claudeOut' = callClaude(claudeResp)
    /\ UNCHANGED <<pipeVars, fetchVars, claudeResp, promptVars, panelVars>>

NextClaude == ClaudeSettles

\* One call of callClaude against every response.
SpecClaude == InitClaude /\ [][NextClaude]_vars

\* ------------------------------------------------------ buildPrompt alone
\* The most runs of comments an input is made of.
MaxRuns == 3

\* The lengths of a run of like comments.
RunCounts == {1, 5, 19}

\* The comments a run is made of: anonymous with a short text; named with a
\* text over the cap; named with a text of exactly the cap; with a very long
\* author name and no date.
CommentShapes ==
    { Comment(0, 400, TRUE), Comment(8, 2000, TRUE),
      Comment(8, CommentCap, TRUE), Comment(4000, 400, FALSE) }

\* The issues: short; with a description over its cap; with a title longer
\* than the whole payload may be.
IssueInputs == { Issue(9, 500), Issue(9, BodyCap + 1), Issue(PromptCap + 10000, 0) }

\* The comment sequence the runs stand for.
RECURSIVE Expand(_)
Expand(runs) ==
    IF runs = <<>> THEN <<>>
    ELSE [k \in 1..Head(runs).count |-> Head(runs).comment] \o Expand(Tail(runs))

InitPrompt ==
    /\ InitPipe /\ FetchIdle /\ ClaudeIdle /\ InitPanel
    /\ promptIssue \in IssueInputs
    /\ promptComments = <<>>
    /\ promptOut = NoPrompt

\* One more run of comments in the input.
AddComments(count, comment) ==
    /\ ~promptOut.built
    /\ promptComments' = Append(promptComments, [count |-> count, comment |-> comment])
    /\ UNCHANGED <<pipeVars, fetchVars, claudeVars, panelVars, promptIssue, promptOut>>

\* background.js:114  buildPrompt(issue, comments)
BuildPrompt ==
    /\ ~promptOut.built
    /\ LET out == buildPrompt(promptIssue, Expand(promptComments))
       IN  promptOut' = [list |-> out.list, text |-> out.text, built |-> TRUE]
    /\ UNCHANGED <<pipeVars, fetchVars, claudeVars, panelVars, promptIssue, promptComments>>

NextPrompt ==
    \/ /\ Len(promptComments) < MaxRuns
       /\ \E count \in RunCounts, comment \in CommentShapes : AddComments(count, comment)
    \/ BuildPrompt

\* One call of buildPrompt on every input made of the runs.
SpecPrompt == InitPrompt /\ [][NextPrompt]_vars

\* ------------------------------------------------------ the panel
\* The most calls of requestSummary.
MaxRequests == 2

\* background.js:348  the id in the page's path: the capture of (\d+)
PanelNodeId == StrId(<<"7">>)

\* renderMarkdown(md): the HTML the panel shows for a summary text.
renderMarkdown(md) == "html(" \o md \o ")"

\* The loading view shown with the buttons left as they are.
showLoading_ButtonsLeft(p) ==
    [p EXCEPT !.idle = FALSE, !.loading = TRUE, !.content = FALSE, !.error = FALSE,
              !.footer = FALSE, !.badge = "Loading..."]

\* background.js:471-481
showLoading(p) ==
    [p EXCEPT !.idle = FALSE, !.loading = TRUE, !.content = FALSE, !.error = FALSE,
              !.footer = FALSE, !.analyzeDisabled = TRUE, !.reanalyzeDisabled = TRUE,
              !.badge = "Loading..."]

\* background.js:483-501
showSummary(p, markdown, fromCache) ==
    [p EXCEPT !.idle = FALSE, !.loading = FALSE, !.error = FALSE,
              !.contentHtml = renderMarkdown(markdown), !.content = TRUE,
              !.footer = TRUE, !.analyzeShown = FALSE, !.reanalyzeShown = TRUE,
              !.reanalyzeDisabled = FALSE,
              !.badge = IF fromCache THEN "Cached" ELSE "Fresh"]

\* background.js:503-514
showError(p, message) ==
    [p EXCEPT !.idle = FALSE, !.loading = FALSE, !.content = FALSE,
              !.errorText = message, !.error = TRUE, !.footer = FALSE,
              !.analyzeDisabled = FALSE, !.reanalyzeDisabled = FALSE,
              !.badge = "Error"]

\* chrome.runtime.lastError.message when the message found no receiver
ErrNoReceiver == "Could not establish connection. Receiving end does not exist."

\* Every response taken for current: the counter not consulted.
IsStale_Never(thisRequest, current) == FALSE

\* background.js:453  thisRequest !== requestId
IsStale(thisRequest, current) == thisRequest # current

\* background.js:452-467  the callback of sendMessage: lastError tells
\* whether chrome.runtime.lastError is set, response is what the background
\* sent.
OnResponse(p, thisRequest, current, lastError, response) ==
    IF IsStale(thisRequest, current) THEN p
    ELSE IF lastError THEN showError(p, ErrNoReceiver)
    ELSE IF response.type = "error" THEN showError(p, response.error)
    ELSE showSummary(p, response.summary, response.fromCache)

\* A request of the panel: call is the message's index among the messages
\* the background received (0: not received yet), state tells whether its
\* callback has run and, if so, whether it rendered or returned at once.
NewRequest(forceRefresh) == [forceRefresh |-> forceRefresh, call |-> 0, state |-> "pending"]

\* background.js:447-451  requestSummary up to the sending of the message
RequestSummary(forceRefresh) ==
    /\ requestId' = requestId + 1
    /\ panel' = showLoading(panel)
    /\ requests' = Append(requests, NewRequest(forceRefresh))
    /\ UNCHANGED <<pipeVars, fetchVars, claudeVars, promptVars>>

\* background.js:46-57  the background receives the oldest message not yet
\* received.
MessageArrives(k) ==
    /\ requests[k].call = 0 /\ requests[k].state = "pending"
    /\ \A j \in 1..(k - 1) : requests[j].call # 0 \/ requests[j].state # "pending"
    /\ OnMessage(PanelNodeId, requests[k].forceRefresh)
    /\ requests' = [requests EXCEPT ![k].call = Len(calls) + 1]
    /\ UNCHANGED <<panel, requestId, fetchVars, claudeVars, promptVars>>

\* The callback of request k runs.
Callback(k, lastError, response) ==
    /\ panel' = OnResponse(panel, k, requestId, lastError, response)
    /\ requests' = [requests EXCEPT ![k].state =
                       IF panel' = panel /\ k # requestId THEN "discarded" ELSE "rendered"]
    /\ UNCHANGED <<requestId, pipeVars, fetchVars, claudeVars, promptVars>>

\* background.js:452-467  the response the background sent for request k
\* reaches the panel.
ResponseArrives(k) ==
    /\ requests[k].state = "pending" /\ requests[k].call # 0
    /\ calls[requests[k].call].settled
    /\ Callback(k, FALSE, calls[requests[k].call].response)

\* background.js:454-457  the message of request k found no receiver.
NoReceiver(k) ==
    /\ requests[k].state = "pending" /\ requests[k].call = 0
    /\ Callback(k, TRUE, NoOutcome)

\* The responses the panel model draws for the primary request.
IssueResponsesPanel ==
    { IssueResponse("transport", 0, "unparseable", Undefined),
      IssueResponse("ok", 200, "object", "Fix thing") }

Requests == 1..Len(requests)

\* requestSummary called at any time, the messages, the pipeline they start
\* and the responses.
NextRequests ==
    \/ /\ Len(requests) < MaxRequests
       /\ \E f \in BOOLEAN : RequestSummary(f)
    \/ \E k \in Requests : MessageArrives(k)
    \/ \E k \in Requests : ResponseArrives(k)
    \/ \E k \in Requests : NoReceiver(k)
    \/ SaveSettings("sk-ant-1", TRUE) /\ Idle
    \/ \E e \in Execs : CacheGetServed(e) /\ Idle
    \/ \E e \in Execs : CacheGetDone(e) /\ Idle
    \/ \E e \in Execs : KeyGetDone(e) /\ Idle
    \/ \E e \in Execs : \E r \in IssueResponsesPanel : IssueResponds(e, r) /\ Idle
    \/ \E e \in Execs : \E r \in PageResponsesAt(execs[e].comments.page) :
           PageResponds(e, r) /\ Idle
    \/ \E e \in Execs : \E r \in ClaudeResponsesPipe : ClaudeResponds(e, r) /\ Idle
    \/ \E e \in Execs : CacheSetApplied(e) /\ Idle
    \/ \E e \in Execs : CacheSetDone(e) /\ Idle

SpecRequests == Init /\ [][NextRequests]_vars

\* ------------------------------------------------------ the panel's buttons
\* The most clicks on the panel's two buttons.
MaxPanelClicks == 3

\* A button takes a click when it is displayed and not disabled.
AnalyzeUsable(p) == p.analyzeShown /\ ~p.analyzeDisabled
ReanalyzeUsable(p) == p.reanalyzeShown /\ ~p.reanalyzeDisabled

\* background.js:432-435  the click listener of the Analyze button
AnalyzeClick ==
    /\ AnalyzeUsable(panel)
    /\ RequestSummary(FALSE)

\* background.js:438-441  the click listener of the Re-analyze button
ReanalyzeClick ==
    /\ ReanalyzeUsable(panel)
    /\ RequestSummary(TRUE)

\* The panel driven by clicks on its buttons, the messages, the pipeline
\* they start and the responses.
NextPanel ==
    \/ Len(requests) < MaxPanelClicks /\ AnalyzeClick
    \/ Len(requests) < MaxPanelClicks /\ ReanalyzeClick
    \/ \E k \in Requests : MessageArrives(k)
    \/ \E k \in Requests : ResponseArrives(k)
    \/ \E k \in Requests : NoReceiver(k)
    \/ SaveSettings("sk-ant-1", TRUE) /\ Idle
    \/ \E e \in Execs : CacheGetServed(e) /\ Idle
    \/ \E e \in Execs : CacheGetDone(e) /\ Idle
    \/ \E e \in Execs : KeyGetDone(e) /\ Idle
    \/ \E e \in Execs : \E r \in IssueResponsesPanel : IssueResponds(e, r) /\ Idle
    \/ \E e \in Execs : \E r \in PageResponsesAt(execs[e].comments.page) :
           PageResponds(e, r) /\ Idle
    \/ \E e \in Execs : \E r \in ClaudeResponsesPipe : ClaudeResponds(e, r) /\ Idle
    \/ \E e \in Execs : CacheSetApplied(e) /\ Idle
    \/ \E e \in Execs : CacheSetDone(e) /\ Idle

SpecPanel == Init /\ [][NextPanel]_vars

\* ------------------------------------------------------ one issue, three calls
\* The most messages of the runs for one issue.
MaxRefreshCalls == 3

\* The primary request answered with the issue.
IssueResponsesOk == { IssueResponse("ok", 200, "object", "Fix thing") }

\* The page request answered with the page.
PageResponsesOk(p) == { PageResponse("ok", 200, "object", TRUE, SitePage(p)) }

\* Messages for one issue, forced or not, with every request answered; the
\* summarization returns one of two texts or fails.
NextRefresh ==
    \/ /\ Len(calls) < MaxRefreshCalls
       /\ \E f \in BOOLEAN : OnMessage(PanelNodeId, f)
       /\ Idle
    \/ SaveSettings("sk-ant-1", TRUE) /\ Idle
    \/ \E e \in Execs : CacheGetServed(e) /\ Idle
    \/ \E e \in Execs : CacheGetDone(e) /\ Idle
    \/ \E e \in Execs : KeyGetDone(e) /\ Idle
    \/ \E e \in Execs : \E r \in IssueResponsesOk : IssueResponds(e, r) /\ Idle
    \/ \E e \in Execs : \E r \in PageResponsesOk(execs[e].comments.page) :
           PageResponds(e, r) /\ Idle
    \/ \E e \in Execs : \E r \in ClaudeResponsesPipe : ClaudeResponds(e, r) /\ Idle
    \/ \E e \in Execs : CacheSetApplied(e) /\ Idle
    \/ \E e \in Execs : CacheSetDone(e) /\ Idle

SpecRefresh == Init /\ [][NextRefresh]_vars

\* ====================================================== properties
\* ------------------------------------------------------ the pipeline
Calls == 1..Len(calls)

\* A non-empty digits-only string.
DigitsOnlyId(id) ==
    id.present /\ Len(id.chars) >= 1 /\ \A i \in 1..Len(id.chars) : id.chars[i] \in Digits

\* The key of an execution, and whether it is pending.
KeyOf(e) == execs[e].nodeId \o <<"_", IF execs[e].forceRefresh THEN "true" ELSE "false">>
Pending(e) == execs[e].pc # "done"

\* Call a had not settled when call b was made.
PendingWhenMade(a, b) == a < b /\ (~calls[a].settled \/ calls[a].settleLen >= b)

\* The execution has issued no network request and no cache write.
NoNetworkNoWrite(e) ==
    /\ execs[e].issueReqs = 0
    /\ execs[e].pageReqs = <<>>
    /\ execs[e].claudeReqs = 0
    /\ execs[e].cacheSets = 0

\* C1: of two calls with the same id and forceRefresh, the second made while
\* the first is pending, both settle with the same outcome, and one pipeline
\* execution serves the two: the second call starts none, and that execution
\* issues one primary request, each comment page once and at most one
\* summarization request.
C1_SameOutcomeOneExecution ==
    \A a, b \in Calls :
        ( /\ PendingWhenMade(a, b)
          /\ calls[a].nodeId = calls[b].nodeId
          /\ calls[a].forceRefresh = calls[b].forceRefresh )
        => /\ calls[b].awaits = calls[a].awaits
           /\ ~calls[b].owner
           /\ calls[a].settled = calls[b].settled
           /\ calls[a].response = calls[b].response
           /\ LET ex == execs[calls[a].awaits] IN
                /\ ex.issueReqs <= 1
                /\ ex.claudeReqs <= 1
                /\ \A i, j \in 1..Len(ex.pageReqs) : ex.pageReqs[i] = ex.pageReqs[j] => i = j

\* C1's case: a second call joined a pending execution for its key and both
\* got the summary that execution produced.
C1_Witness ==
    \E a, b \in Calls :
        /\ PendingWhenMade(a, b)
        /\ calls[a].nodeId = calls[b].nodeId
        /\ calls[a].forceRefresh = calls[b].forceRefresh
        /\ calls[a].settled /\ calls[b].settled
        /\ calls[b].response.type = "result"
        /\ ~calls[b].response.fromCache

\* C2: for every dedupe key at most one execution is pending, and the
\* registry holds the key exactly while that execution is pending, mapped to
\* it: inserted at its start, removed when it settles with a result or an
\* error; the registry is empty whenever no request is pending.
C2_RegistryMatchesPending ==
    /\ \A e1, e2 \in Execs :
          (Pending(e1) /\ Pending(e2) /\ KeyOf(e1) = KeyOf(e2)) => e1 = e2
    /\ DOMAIN inFlight = {KeyOf(e) : e \in {x \in Execs : Pending(x)}}
    /\ \A k \in DOMAIN inFlight :
          inFlight[k] \in Execs /\ Pending(inFlight[k]) /\ KeyOf(inFlight[k]) = k
    /\ (\A c \in Calls : calls[c].settled) => DOMAIN inFlight = {}

\* C2's case: one execution has failed and its key is gone from the registry
\* while an execution for another key is still pending and registered.
C2_Witness ==
    \E e1, e2 \in Execs :
        /\ execs[e1].pc = "done" /\ execs[e1].outcome.type = "error"
        /\ KeyOf(e1) \notin DOMAIN inFlight
        /\ Pending(e2) /\ KeyOf(e2) \in DOMAIN inFlight

\* Calls a and a+1 are two calls in a row of handle(id, false) for one
\* digits-only id, the second made after the first settled and itself
\* settled, with no cache removal taking effect from the start of the
\* execution that served the first until the second settled.
TwiceInARow(a) ==
    /\ a + 1 \in Calls
    /\ DigitsOnlyId(calls[a].nodeId)
    /\ calls[a].nodeId = calls[a + 1].nodeId
    /\ ~calls[a].forceRefresh /\ ~calls[a + 1].forceRefresh
    /\ calls[a].settled /\ calls[a].settleLen = a
    /\ calls[a + 1].settled
    /\ execs[calls[a].awaits].startEpoch = calls[a + 1].epoch

\* The second call of the pair issues no summarization request and returns
\* the cached summary with fromCache = true; the two calls together issue at
\* most one summarization request.
SecondServedFromCache(a) ==
    LET first == execs[calls[a].awaits]
        second == execs[calls[a + 1].awaits]
    IN  /\ first.claudeReqs + second.claudeReqs <= 1
        /\ second.claudeReqs = 0
        /\ calls[a + 1].response.type = "result"
        /\ calls[a + 1].response.fromCache
        /\ calls[a + 1].response.summary = second.cached
        /\ ( {e \in Execs : /\ e # calls[a].awaits
                            /\ execs[e].nodeId = first.nodeId
                            /\ execs[e].cacheSets > 0} = {}
             => calls[a + 1].response.summary = calls[a].response.summary )

\* C3 as stated: calling handle(id, false) twice in a row, with no cache clear
\* in between, issues at most one summarization request in total, and the
\* second call returns the cached summary with fromCache = true.
C3_AsStated == \A a \in Calls : TwiceInARow(a) => SecondServedFromCache(a)

\* C3 amended: the same, provided the first call returned a result.
C3_AfterSuccess ==
    \A a \in Calls :
        (TwiceInARow(a) /\ calls[a].response.type = "result") => SecondServedFromCache(a)

\* C3's case: a first call ran the pipeline and returned a fresh summary, and
\* the next call for the id has settled.
C3_Witness ==
    \E a \in Calls :
        /\ TwiceInARow(a)
        /\ calls[a].response.type = "result"
        /\ ~calls[a].response.fromCache
        /\ execs[calls[a].awaits].claudeReqs = 1

\* C4: a call whose id is not a non-empty digits-only string is answered with
\* the invalid-input error at once and starts nothing: every execution (the
\* only source of storage operations and network requests) and every
\* registry entry belongs to a call with a digits-only id.
C4_InvalidIdRejected ==
    /\ \A c \in Calls :
          ~DigitsOnlyId(calls[c].nodeId) =>
              /\ calls[c].settled /\ calls[c].settleLen = c
              /\ calls[c].response = Failure(ErrInvalidId)
              /\ calls[c].awaits = 0 /\ ~calls[c].owner
    /\ \A e \in Execs :
          \E c \in Calls :
              calls[c].owner /\ calls[c].awaits = e /\ DigitsOnlyId(calls[c].nodeId)
    /\ Cardinality({c \in Calls : calls[c].owner}) = Len(execs)
    /\ \A k \in DOMAIN inFlight : inFlight[k] \in Execs /\ KeyOf(inFlight[k]) = k

\* C4's case: the id "7x" was rejected while an execution was pending.
C4_Witness ==
    \E c \in Calls :
        /\ calls[c].nodeId = StrId(<<"7", "x">>)
        /\ calls[c].response = Failure(ErrInvalidId)
        /\ \E e \in Execs : Pending(e)

\* The cache read of the execution has been delivered.
CacheReadDelivered(e) == execs[e].cacheGets > 0 /\ execs[e].pc \notin {"cacheGet", "cacheGot"}

\* C5: an execution with forceRefresh = false whose cache read found an entry
\* returns {summary: that entry, fromCache: true} and issues no request and no
\* cache write; an execution with forceRefresh = true never reads the cache.
C5_CacheHitShortCircuits ==
    \A e \in Execs :
        /\ execs[e].forceRefresh => (execs[e].cacheGets = 0 /\ execs[e].cached = Undefined)
        /\ ~execs[e].forceRefresh => execs[e].cacheGets = 1
        /\ (CacheReadDelivered(e) /\ execs[e].cached # Undefined /\ execs[e].cached # "") =>
              /\ execs[e].pc = "done"
              /\ execs[e].outcome = Result(execs[e].cached, TRUE)
              /\ NoNetworkNoWrite(e)
              /\ execs[e].keyGets = 0
        /\ (execs[e].cached # Undefined) =>
              \E w \in Execs : /\ execs[w].nodeId = execs[e].nodeId
                               /\ execs[w].cacheSets = 1
                               /\ execs[w].summary = execs[e].cached

\* C5's case: a cache hit was returned.
C5_Witness ==
    \E e \in Execs :
        /\ execs[e].pc = "done"
        /\ execs[e].outcome.type = "result" /\ execs[e].outcome.fromCache

\* C6: an execution that ends in an error has issued no cache write, and every
\* cache entry was written by an execution whose summarization request
\* returned that text.
C6_NoCacheWriteOnError ==
    /\ \A e \in Execs :
          /\ (execs[e].pc = "done" /\ execs[e].outcome.type = "error") => execs[e].cacheSets = 0
          /\ execs[e].cacheSets > 0 =>
                /\ execs[e].claudeReqs = 1
                /\ execs[e].summary \in {"Summary A", "Summary B" \o TruncationNotice}
    /\ \A k \in DOMAIN local :
          (Len(k) >= 1 /\ k[1] = "summary_") =>
              \E e \in Execs : /\ k = <<"summary_">> \o execs[e].nodeId
                               /\ execs[e].pc \in {"cacheAck", "done"}
                               /\ execs[e].cacheSets = 1
                               /\ execs[e].summary = local[k]

\* C6's case: the summarization request failed and the execution ended with
\* its error, the cache holding nothing for the id.
C6_Witness ==
    \E e \in Execs :
        /\ execs[e].pc = "done"
        /\ execs[e].outcome = Failure(ErrClaude429)
        /\ execs[e].claudeReqs = 1
        /\ (<<"summary_">> \o execs[e].nodeId) \notin DOMAIN local

\* The settings reads of the execution have been delivered.
KeyReadDelivered(e) ==
    execs[e].keyGets > 0 /\ execs[e].pc \notin {"cacheGet", "cacheGot", "keyGet"}

\* C9: an execution that finds no stored credential fails with the
\* no-credential error, having issued no network request and no cache write;
\* and only such an execution fails with that error.
C9_NoCredentialNoNetwork ==
    \A e \in Execs :
        /\ (KeyReadDelivered(e) /\ (execs[e].apiKey = Undefined \/ execs[e].apiKey = "")) =>
              /\ execs[e].pc = "done"
              /\ execs[e].outcome = Failure(ErrNoKey)
              /\ NoNetworkNoWrite(e)
        /\ (execs[e].outcome.type = "error" /\ execs[e].outcome.error = ErrNoKey) =>
              (KeyReadDelivered(e) /\ execs[e].apiKey = Undefined /\ NoNetworkNoWrite(e))

\* C9's case: an execution failed for want of a credential.
C9_Witness ==
    \E e \in Execs :
        /\ execs[e].pc = "done"
        /\ execs[e].outcome.error = ErrNoKey

\* C11: an execution whose summarization succeeded writes the returned text
\* under summary_{id}, creating or overwriting the entry and touching no other
\* key, forceRefresh or not, before it returns; and it returns that text with
\* fromCache = false.  A result with fromCache = false comes from no other
\* path.
C11_SuccessIsCachedThenReturned ==
    /\ [](\A e \in Execs :
            /\ execs[e].summary # Undefined =>
                  /\ execs[e].pc \in {"cacheSet", "cacheAck", "done"}
                  /\ execs[e].cacheSets = 1 /\ execs[e].claudeReqs = 1
                  /\ execs[e].pc = "done" => execs[e].outcome = Result(execs[e].summary, FALSE)
            /\ (execs[e].outcome.type = "result" /\ ~execs[e].outcome.fromCache) =>
                  /\ execs[e].summary # Undefined
                  /\ execs[e].outcome.summary = execs[e].summary)
    /\ [][\A e \in Execs :
            /\ (execs[e].pc = "cacheSet" /\ execs'[e].pc # "cacheSet") =>
                  /\ execs'[e].pc = "cacheAck"
                  /\ DOMAIN local' = DOMAIN local \cup {<<"summary_">> \o execs[e].nodeId}
                  /\ local'[<<"summary_">> \o execs[e].nodeId] = execs[e].summary
                  /\ \A k \in DOMAIN local :
                        k # <<"summary_">> \o execs[e].nodeId => local'[k] = local[k]
            /\ (execs[e].pc # "done" /\ execs'[e].pc = "done"
                    /\ execs'[e].outcome.type = "result" /\ ~execs'[e].outcome.fromCache) =>
                  execs[e].pc = "cacheAck"]_vars

\* C11's case: a forced refresh returned a fresh summary that replaced the
\* different summary another execution had cached for the same id.
C11_Witness ==
    \E e1, e2 \in Execs :
        /\ execs[e1].nodeId = execs[e2].nodeId
        /\ ~execs[e1].forceRefresh /\ execs[e2].forceRefresh
        /\ execs[e1].pc = "done" /\ execs[e2].pc = "done"
        /\ execs[e1].cacheSets = 1 /\ execs[e2].cacheSets = 1
        /\ execs[e1].summary # execs[e2].summary
        /\ execs[e2].outcome = Result(execs[e2].summary, FALSE)
        /\ (<<"summary_">> \o execs[e2].nodeId) \in DOMAIN local
        /\ local[<<"summary_">> \o execs[e2].nodeId] = execs[e2].summary

\* C12: nothing is retried: whatever fails, an execution issues at most one
\* primary request, at most one request per comment page number (the pages
\* requested are 0, 1, 2, ... each once), at most one summarization request,
\* one cache read and one cache write; and executions are started by calls
\* only, one per call that did not join a pending one.
C12_NoAutomaticRetry ==
    /\ \A e \in Execs :
          /\ execs[e].issueReqs <= 1
          /\ execs[e].claudeReqs <= 1
          /\ execs[e].cacheGets <= 1 /\ execs[e].keyGets <= 1 /\ execs[e].cacheSets <= 1
          /\ \A i \in 1..Len(execs[e].pageReqs) : execs[e].pageReqs[i] = i - 1
          /\ execs[e].outcome.type = "error" => execs[e].pc = "done"
    /\ Len(execs) <= Len(calls)
    /\ \A e \in Execs : Cardinality({c \in Calls : calls[c].awaits = e /\ calls[c].owner}) = 1

\* C12's case: an execution failed on its one primary request, and the next
\* attempt for the id is the execution of another call.
C12_Witness ==
    \E e1, e2 \in Execs :
        /\ e1 < e2
        /\ execs[e1].nodeId = execs[e2].nodeId
        /\ execs[e1].pc = "done"
        /\ execs[e1].outcome = Failure(ErrTransport)
        /\ execs[e1].issueReqs = 1 /\ execs[e1].claudeReqs = 0
        /\ execs[e2].issueReqs = 1

\* C13: every message has one keep-alive timer, running exactly from the
\* delivery of the message until its handleSummarize call settles (with a
\* fresh result, an error, a cache hit, the invalid-id error, or the outcome
\* of the execution it joined) and never restarted; so no timer is active
\* when no request is pending.
C13_KeepAliveScoped ==
    /\ [](/\ \A c \in Calls :
               /\ calls[c].keepAlive <=> ~calls[c].settled
               /\ calls[c].settled <=>
                     (calls[c].awaits = 0 \/ execs[calls[c].awaits].pc = "done")
               /\ calls[c].settled => calls[c].response.type \in {"result", "error"}
          /\ (\A e \in Execs : execs[e].pc = "done") =>
                 \A c \in Calls : ~calls[c].keepAlive)
    /\ [][/\ \A c \in Calls : ~calls[c].keepAlive => ~calls'[c].keepAlive
          /\ Len(calls') > Len(calls) =>
                 /\ Len(calls') = Len(calls) + 1
                 /\ calls'[Len(calls')].keepAlive <=> calls'[Len(calls')].awaits # 0]_vars

\* C13's case: a call that failed and a call that had joined its execution
\* have both been answered and both timers are stopped.
C13_Witness ==
    \E a, b \in Calls :
        /\ calls[a].owner /\ ~calls[b].owner
        /\ calls[b].awaits = calls[a].awaits /\ calls[a].awaits # 0
        /\ calls[a].response.type = "error" /\ calls[b].response.type = "error"
        /\ ~calls[a].keepAlive /\ ~calls[b].keepAlive

\* The primary resource the execution fetched has a non-empty title.
HasTitle(e) ==
    /\ execs[e].issue.kind = "object"
    /\ execs[e].issue.title # Undefined
    /\ execs[e].issue.title # ""

\* C18: an execution whose two fetches completed and whose primary resource
\* has no title or an empty title fails with the invalid-resource error with
\* no summarization request and no cache write; and a summarization request
\* is issued only once both fetches have completed successfully and the
\* resource has a non-empty title.
C18_InvalidResourceRejected ==
    \A e \in Execs :
        /\ ( /\ execs[e].issue.state = "fulfilled"
             /\ execs[e].comments.state = "returned"
             /\ ~HasTitle(e) )
           => /\ execs[e].pc = "done"
              /\ execs[e].outcome = Failure(ErrNotIssue)
              /\ execs[e].claudeReqs = 0
              /\ execs[e].cacheSets = 0
        /\ execs[e].claudeReqs > 0 =>
              /\ execs[e].issue.state = "fulfilled"
              /\ execs[e].comments.state = "returned"
              /\ HasTitle(e)

\* C19: a step of the clear-cache action (the click that lists the store, the
\* removal that follows) leaves every key that does not start with "summary_"
\* in the store with its value, the credential among them, removes nothing but
\* keys so prefixed, and changes nothing at all when the removal fails.
C19_ClearCacheFrame ==
    /\ [](\A k \in clearKeys : Len(k) >= 1 /\ k[1] = "summary_")
    /\ [][(clicks' # clicks \/ (clearKeys # {} /\ clearKeys' = {})) =>
            /\ \A k \in DOMAIN local :
                  (Len(k) = 0 \/ k[1] # "summary_") =>
                      (k \in DOMAIN local' /\ local'[k] = local[k])
            /\ \A k \in DOMAIN local' : k \in DOMAIN local /\ local'[k] = local[k]
            /\ removals' = removals => local' = local
            /\ clicks' # clicks => local' = local]_vars

\* C19's case: a removal has emptied the cache of a summary that had been
\* written, and the credential is still stored.
C19_Witness ==
    /\ removals = 1
    /\ <<"apiKey">> \in DOMAIN local
    /\ local[<<"apiKey">>] = "sk-ant-1"
    /\ \E e \in Execs : /\ execs[e].pc = "done" /\ execs[e].cacheSets = 1
                        /\ (<<"summary_">> \o execs[e].nodeId) \notin DOMAIN local

\* C21: once an execution has settled it issues no further network request:
\* no primary request, no comment page request, no summarization request.
C21_NoRequestAfterSettlement ==
    [][\A e \in Execs :
          execs[e].pc = "done" =>
              /\ execs'[e].issueReqs = execs[e].issueReqs
              /\ execs'[e].pageReqs = execs[e].pageReqs
              /\ execs'[e].claudeReqs = execs[e].claudeReqs]_vars

\* C22: when a forceRefresh = true call has returned a summary, the next call
\* made after it, if it is a forceRefresh = false call for the same id and no
\* cache removal took effect from the start of the forced execution to the
\* second response, returns that summary with fromCache = true, whatever
\* other executions for the id were running.
C22_ForcedSummaryServedNext ==
    \A a \in Calls :
        LET c == calls[a].settleLen + 1 IN
        ( /\ calls[a].forceRefresh
          /\ calls[a].settled
          /\ calls[a].response.type = "result"
          /\ c \in Calls
          /\ ~calls[c].forceRefresh
          /\ calls[c].nodeId = calls[a].nodeId
          /\ calls[c].settled
          /\ calls[c].epoch = execs[calls[a].awaits].startEpoch )
        => calls[c].response = Result(calls[a].response.summary, TRUE)

\* The message c has its response, of one of the two forms, its timer is
\* stopped and the registry holds no entry for its execution.
Answered(c) ==
    /\ c \in Calls
    /\ calls[c].settled
    /\ calls[c].response.type \in {"result", "error"}
    /\ ~calls[c].keepAlive
    /\ \A k \in DOMAIN inFlight : inFlight[k] # calls[c].awaits

\* C23: when every storage operation and network request settles, every
\* SUMMARIZE_ISSUE message delivered is answered in the end: it gets a
\* response {summary, fromCache} or {error}, and from then on its keep-alive
\* timer is stopped and its execution is not registered; the response, once
\* sent, is never sent again or changed.
C23_EveryMessageAnswered ==
    /\ \A c \in 1..MaxCalls : (c \in Calls) ~> Answered(c)
    /\ [](\A c \in Calls : calls[c].settled => Answered(c))
    /\ [][\A c \in Calls : calls[c].settled => calls'[c] = calls[c]]_vars

\* Two messages answered, one by an execution that failed and one with a
\* summary, one of them having joined the other's execution or run beside it;
\* nothing is left registered and no timer runs.
C23_Witness ==
    /\ Len(calls) = 2
    /\ Answered(1) /\ Answered(2)
    /\ calls[1].awaits # 0 /\ calls[2].awaits # 0
    /\ \E c, d \in Calls : /\ calls[c].response.type = "error"
                            /\ calls[d].response.type = "result"
    /\ inFlight = EmptyMap

\* The requests of the panel whose callback has not run.
Outstanding == {k \in Requests : requests[k].state = "pending"}

\* The views of the panel's body that are displayed.
ViewsShown(p) ==
    (IF p.idle THEN {"idle"} ELSE {}) \cup (IF p.loading THEN {"loading"} ELSE {})
    \cup (IF p.content THEN {"content"} ELSE {}) \cup (IF p.error THEN {"error"} ELSE {})

\* C25: a panel whose requests come from clicks on its buttons has at most
\* one request outstanding; while one is outstanding both buttons are
\* disabled; a button that is disabled gets enabled only in the step in which
\* the callback of the outstanding request shows the summary or the error;
\* and at all times exactly one of the four views is displayed.
C25_OneRequestOneView ==
    /\ [](Cardinality(Outstanding) <= 1)
    /\ [](Outstanding # {} => panel.analyzeDisabled /\ panel.reanalyzeDisabled)
    /\ [](Cardinality(ViewsShown(panel)) = 1)
    /\ [][ ( \/ panel.analyzeDisabled /\ ~panel'.analyzeDisabled
             \/ panel.reanalyzeDisabled /\ ~panel'.reanalyzeDisabled )
           => /\ panel'.content \/ panel'.error
              /\ ~panel'.loading
              /\ \E k \in Outstanding : requests'[k].state = "rendered" ]_vars

\* After an error and a summary, each followed by a click, the third request
\* (a forced one) is outstanding: the loading view alone is displayed and
\* both buttons are disabled.
C25_Witness ==
    /\ Len(requests) = 3
    /\ requests[1].state = "rendered" /\ requests[2].state = "rendered"
    /\ ~requests[2].forceRefresh /\ requests[3].forceRefresh
    /\ Outstanding = {3}
    /\ ViewsShown(panel) = {"loading"}
    /\ panel.analyzeDisabled /\ panel.reanalyzeDisabled

\* ------------------------------------------------------ buildPrompt
\* The formatted blocks of the input, their number and their total length.
PromptBlocks == ProcessComments(Expand(promptComments))
PromptCount == Len(PromptBlocks)
PromptTotal == TotalLen(PromptBlocks)

\* The omission marker stating count.
MarkerStating(count) ==
    <<[lit |-> TRUE, src |-> "[" \o ToString(count) \o " middle comments omitted for brevity]",
       from |-> 0,
       len |-> Len("[" \o ToString(count) \o " middle comments omitted for brevity]")]>>

\* C14: when the blocks' total length exceeds 60,000 the list is the first 5
\* blocks, one omission marker stating (number of comments - 20), the last 15
\* blocks, in that order (of fewer than 5 or 15 blocks, all of them, as slice
\* gives them); when the total is 60,000 or less the list is the blocks.
C14_OverflowPolicy ==
    promptOut.built =>
        LET n == PromptCount
            nFirst == IF n < 5 THEN n ELSE 5
            nLast == IF n < 15 THEN n ELSE 15
        IN  IF PromptTotal > 60000
            THEN /\ Len(promptOut.list) = nFirst + 1 + nLast
                 /\ \A k \in 1..nFirst : promptOut.list[k] = PromptBlocks[k]
                 /\ promptOut.list[nFirst + 1] = MarkerStating(n - 20)
                 /\ \A k \in 1..nLast :
                        promptOut.list[nFirst + 1 + k] = PromptBlocks[n - nLast + k]
            ELSE promptOut.list = PromptBlocks

\* C14's case: more than 25 comments over the budget were cut to 21 items.
C14_Witness ==
    /\ promptOut.built
    /\ PromptCount > 25
    /\ PromptTotal > 60000
    /\ Len(promptOut.list) = 21

\* C24: whenever the overflow policy is applied (the blocks total more than
\* 60,000 characters) the count the marker states, number of comments - 20,
\* is at least 1 and no block stands at two places of the resulting list.
C24_SlicesDisjoint ==
    (promptOut.built /\ PromptTotal > 60000) =>
        /\ PromptCount - 20 >= 1
        /\ \A j, k \in 1..Len(promptOut.list) :
               j # k => promptOut.list[j] # promptOut.list[k]

\* C15 as stated: of 25 blocks over 60,000 characters the section holds
\* blocks 0-4, a marker stating 20 omitted comments, blocks 20-24.
C15_AsStated ==
    (promptOut.built /\ PromptCount = 25 /\ PromptTotal > 60000) =>
        /\ Len(promptOut.list) = 11
        /\ \A k \in 1..5 : promptOut.list[k] = PromptBlocks[k]
        /\ promptOut.list[6] = MarkerStating(20)
        /\ \A k \in 1..5 : promptOut.list[6 + k] = PromptBlocks[20 + k]

\* C15 amended: of 25 blocks over 60,000 characters the section holds blocks
\* 0-4, a marker stating 5 omitted comments, blocks 10-24, in that order.
C15_FiveOmittedOfTwentyFive ==
    (promptOut.built /\ PromptCount = 25 /\ PromptTotal > 60000) =>
        /\ Len(promptOut.list) = 21
        /\ \A k \in 1..5 : promptOut.list[k] = PromptBlocks[k]
        /\ promptOut.list[6] = MarkerStating(5)
        /\ \A k \in 1..15 : promptOut.list[6 + k] = PromptBlocks[10 + k]

\* C15's case: a prompt built from 25 comments over the budget.
C15_Witness == promptOut.built /\ PromptCount = 25 /\ PromptTotal > 60000

\* The payload before the final truncate: the template around the list built.
PromptFull ==
    FullText(promptIssue, PromptCount, Join(promptOut.list, "\n\n---\n\n"))

MarkerText == <<[lit |-> TRUE, src |-> "... [truncated]", from |-> 0, len |-> 15]>>

\* C17: the payload never exceeds 80,000 characters plus the marker, as it is
\* the document unchanged when that has at most 80,000 characters and
\* otherwise its first 80,000 characters followed by the marker; the same for
\* the description under its cap of 10,000.
C17_TruncateContract ==
    promptOut.built =>
        /\ Length(promptOut.text) <= 80000 + Length(MarkerText)
        /\ IF Length(PromptFull) <= 80000
           THEN promptOut.text = PromptFull
           ELSE /\ SubSeq(promptOut.text, Len(promptOut.text), Len(promptOut.text)) = MarkerText
                /\ Length(SubSeq(promptOut.text, 1, Len(promptOut.text) - 1)) = 80000
                /\ \A k \in 1..(Len(promptOut.text) - 2) : promptOut.text[k] = PromptFull[k]
                /\ LET cut == promptOut.text[Len(promptOut.text) - 1]
                       whole == PromptFull[Len(promptOut.text) - 1]
                   IN  /\ cut.src = whole.src /\ cut.lit = whole.lit /\ cut.from = whole.from
                       /\ cut.len <= whole.len
        /\ (promptIssue.body > 10000 /\ Length(PromptFull) <= 80000) =>
              \E k \in 1..(Len(promptOut.text) - 1) :
                  /\ promptOut.text[k] = [lit |-> FALSE, src |-> "body", from |-> 0, len |-> 10000]
                  /\ <<promptOut.text[k + 1]>> = MarkerText

\* C17's case: a document over the cap was cut inside a comment block.
C17_Witness ==
    /\ promptOut.built
    /\ Length(PromptFull) > 80000
    /\ PromptCount >= 20
    /\ promptIssue.title < 80000

\* ------------------------------------------------------ the panel
\* The panel shows the response r and is no longer loading.
Shows(p, r) ==
    /\ ~p.loading
    /\ IF r.type = "error"
       THEN p.error /\ ~p.content /\ p.errorText = r.error /\ p.badge = "Error"
       ELSE /\ p.content /\ ~p.error
            /\ p.contentHtml = "html(" \o r.summary \o ")"
            /\ p.badge = IF r.fromCache THEN "Cached" ELSE "Fresh"

\* C20: the callback of a request renders its response only when the request
\* is the panel's most recent one: the callback of an earlier request leaves
\* the panel as it is, and whatever the panel displays after a callback is
\* the response to the most recent request.  No callback touches the
\* background: the execution serving a discarded request has run to its end
\* like any other and, when it produced a summary, has written it to the
\* cache.
C20_StaleResponsesDiscarded ==
    /\ [](\A k \in Requests :
            (requests[k].state = "discarded" /\ requests[k].call # 0) =>
                LET e == calls[requests[k].call].awaits IN
                /\ k < requestId
                /\ execs[e].pc = "done"
                /\ execs[e].outcome = calls[requests[k].call].response
                /\ (execs[e].outcome.type = "result" /\ ~execs[e].outcome.fromCache)
                       => execs[e].cacheSets = 1)
    /\ [][\A k \in Requests :
            (requests[k].state = "pending" /\ requests'[k].state # "pending") =>
                /\ UNCHANGED <<local, inFlight, execs, calls, requestId>>
                /\ IF k # requestId
                   THEN panel' = panel /\ requests'[k].state = "discarded"
                   ELSE /\ requests'[k].state = "rendered"
                        /\ panel.loading /\ ~panel'.loading
                        /\ requests[k].call # 0 =>
                               Shows(panel', calls[requests[k].call].response)]_vars
    /\ [][(panel' # panel /\ requestId' = requestId) =>
            /\ requests[requestId].state = "pending"
            /\ requests'[requestId].state = "rendered"]_vars

\* C20's case: the response to the first request came back after a second
\* request had been made and was discarded, its execution having produced
\* and cached a summary; the second request's response is displayed.
C20_Witness ==
    \E k \in Requests :
        /\ k < requestId
        /\ requests[k].state = "discarded" /\ requests[k].call # 0
        /\ ~requests[k].forceRefresh /\ requests[requestId].forceRefresh
        /\ LET e == calls[requests[k].call].awaits IN
             /\ execs[e].outcome = Result(execs[e].summary, FALSE)
             /\ execs[e].cacheSets = 1
        /\ requests[requestId].state = "rendered" /\ requests[requestId].call # 0
        /\ Shows(panel, calls[requests[requestId].call].response)
        /\ calls[requests[requestId].call].response # calls[requests[k].call].response

\* ------------------------------------------------------ fetchComments
\* The list a response contributes: that of a successful, parsed response
\* that has one, and nothing otherwise.
ListOf(r) ==
    IF r.net = "ok" /\ r.status >= 200 /\ r.status <= 299 /\ r.kind = "object" /\ r.hasList
    THEN r.list ELSE <<>>

RECURSIVE ConcatLists(_)
ConcatLists(rs) == IF rs = <<>> THEN <<>> ELSE ListOf(Head(rs)) \o ConcatLists(Tail(rs))

\* The three kinds of failure of a page request.
PageFailed(r) ==
    \/ r.net = "transport"
    \/ r.net = "ok" /\ ~(r.status >= 200 /\ r.status <= 299)
    \/ r.net = "ok" /\ r.status >= 200 /\ r.status <= 299 /\ r.kind = "unparseable"

\* A successful page that ends the data: no list, an empty one, or fewer than
\* 50 items.
EndOfData(r) ==
    /\ r.net = "ok" /\ r.status >= 200 /\ r.status <= 299 /\ r.kind = "object"
    /\ (~r.hasList \/ Len(r.list) < 50)

\* C7: in fetchComments a failure on page 0 (transport failure, non-success
\* status, unparseable body) makes the fetch fail, and a failure of any of
\* these kinds on a later page is tolerated: the loop stops and returns the
\* comments of the earlier pages without an error.
C7_LaterPageFailureTolerated ==
    \A i \in 1..Len(fetchServed) :
        PageFailed(fetchServed[i]) =>
            IF i = 1
            THEN fetchLoop.state = "threw"
            ELSE /\ fetchLoop.state = "returned"
                 /\ fetchLoop.allComments = ConcatLists(SubSeq(fetchServed, 1, i - 1))

ClaimedClaudeOutcome(r) ==
    IF ~(r.status >= 200 /\ r.status <= 299) THEN
        IF r.status = 401
            THEN ClaudeError("Invalid API key. Check your key in the extension settings.")
        ELSE IF r.status = 429
            THEN ClaudeError("Rate limited by Claude API. Please wait and try again.")
        ELSE IF r.status >= 500
            THEN ClaudeError("Claude API is temporarily unavailable. Please try again in a moment.")
        ELSE IF r.status = 400 THEN
            IF r.kind # "unparseable" /\ r.errorMessage # Undefined /\ r.errorMessage # ""
            THEN ClaudeError("Claude API error: " \o r.errorMessage)
            ELSE ClaudeError("Claude API error: Bad request")
        ELSE ClaudeError("Claude API error (HTTP " \o ToString(r.status) \o ")")
    ELSE IF r.kind = "unparseable" THEN ClaudeError("Failed to parse Claude API response.")
    ELSE IF r.text = Undefined \/ r.text = "" THEN ClaudeError("Empty response from Claude API")
    ELSE IF r.stop_reason = "max_tokens"
         THEN ClaudeText(r.text \o "\n\n*[Summary was truncated due to length limits]*")
         ELSE ClaudeText(r.text)

\* C10: callClaude's outcome is the claimed function of the response: 401,
\* 429, >= 500, 400 (with the body's error.message or "Bad request"), any
\* other non-success status, a success with an unparseable body, a success
\* with a missing or empty content[0].text, and otherwise the text, with the
\* truncation notice exactly when stop_reason is "max_tokens".
C10_ResponseFunction ==
    (claudeOut # ClaudePending /\ claudeResp.net = "ok")
        => claudeOut = ClaimedClaudeOutcome(claudeResp)

====
